---- MODULE Spec2Model ----
(***************************************************************************)
(* RadioWall server: the Radio.garden client (place cache, nearest-station *)
(* selector, stream resolver), the coordinate converter, the UPnP streamer *)
(* and the event handlers of the server, modelled as a state machine.      *)
(*                                                                         *)
(* One lookup (find_nearest_stations) is a sequence of steps separated by  *)
(* the network calls it makes: the call itself with the places refresh and *)
(* the selection of places, one step per channel-list fetch, and the final *)
(* pick with the stream probe.  Time is counted in abstract ticks.         *)
(* A call of discover, play or stop is one step that takes what the        *)
(* network does to it as its input.  A touch handler is the step up to the *)
(* lookup, the steps of the lookup, and the step from its outcome on.      *)
(***************************************************************************)
EXTENDS Integers, Sequences, FiniteSets, TLC

\* ---------------------------------------------------------------- bounds
MaxPlaces == 2      \* places known to the directory
MaxItems == 3       \* longest channel listing of one place
MaxBudget == 2      \* largest configured n_stations
CacheTtl == 2       \* cache_places_seconds, in ticks
MaxDelay == 1       \* longest duration of the places fetch, in ticks
MaxPanel == 3       \* largest touch coordinate of a calibrated panel
MaxMap == 1         \* largest map bound of a calibration, in degrees
MaxDevices == 4     \* locations of the network that can answer a search
MaxResponses == 3   \* most SSDP responses to one search
MaxText == 2        \* longest title or URL given to the metadata template
MaxInbox == 2       \* most messages waiting for the MQTT loop

Horizon == 2 * CacheTtl

Modes == {"nearest", "popular", "random"}
RedirectCodes == {301, 302, 307, 308}
StatusCodes == RedirectCodes \cup {200, 404}

VARIABLES
    n_stations,          \* RadioGardenClient.n_stations
    selection_mode,      \* RadioGardenClient.selection_mode
    places,              \* RadioGardenClient._places
    places_fetched_at,   \* RadioGardenClient._places_fetched_at
    now,                 \* time.time()
    last_fetch,          \* history: the most recent successful GET /places
    pc,                  \* position of the running lookup
    target,              \* the (lat, lon) the lookup was called with
    selected_places,     \* local of find_nearest_stations
    channels,            \* local of find_nearest_stations
    fetched,             \* history: outcome of each channel fetch, in order
    calls,               \* history: network calls of the lookup, in order
    result,              \* what the last lookup returned or raised
    probe,               \* history: the last direct call of get_stream_url
    calibration,         \* CoordinateConverter's touch and map bounds
    projected,           \* history: the last direct call of pixel_to_latlon
    device_name,         \* UpnpStreamer.device_name
    default_volume,      \* UpnpStreamer.default_volume
    device,              \* UpnpStreamer._device, 0 for None
    last_call,           \* history: the last call of discover, play or stop
    metadata,            \* history: the last DIDL-Lite payload play built
    hpc,                 \* position of the server: starting, waiting, handling
    event,               \* the event being handled
    published,           \* notifications published for the event, in order
    inbox                \* messages received and not yet given to _on_message

vars == <<n_stations, selection_mode, places, places_fetched_at, now,
          last_fetch, pc, target, selected_places, channels, fetched, calls,
          result, probe, calibration, projected, device_name, default_volume,
          device, last_call, metadata, hpc, event, published, inbox>>

converter == <<calibration, projected>>
streamer == <<device_name, default_volume, device, last_call, metadata>>
server == <<hpc, event, published, inbox>>
others == <<converter, streamer, server>>

\* ------------------------------------------------------- directory data
Abs(n) == IF n < 0 THEN -n ELSE n

\* The places of the directory lie on one line, two positions apart, and
\* declare a size of 1 (odd ids) or 2 (even ids).
Place(i) ==
    [id |-> i, title |-> <<"place", i>>, country |-> <<"country", i>>,
     geo |-> 2 * (i - 1), size |-> IF i % 2 = 1 THEN 1 ELSE 2]

\* The points a touch can map to: the places' positions and those between.
Points == 0..(2 * (MaxPlaces - 1))

\* The catalogs GET /places can return: any of the places, in any order.
Catalogs ==
    UNION {{[i \in 1..n |-> Place(ids[i])] :
              ids \in {f \in [1..n -> 1..MaxPlaces] :
                         \A a, b \in 1..n : a # b => f[a] # f[b]}} :
           n \in 0..MaxPlaces}

\* The station id of the k-th channel of place pid, and the place of a
\* station id.
StationId(pid, k) == pid * 10 + k
PlaceOfStation(station_id) == station_id \div 10

\* The k-th channel of place pid: {"page": {"url": "/listen/<name>/<id>",
\* "title": ...}}, the url as its path segments.
Channel(pid, k) ==
    [page |-> [url |-> <<"listen", "name", StationId(pid, k)>>,
               title |-> <<"name", StationId(pid, k)>>]]

\* The listing of n channels of place pid, in the directory's own order.
Listing(pid, n) == [k \in 1..n |-> Channel(pid, k)]

\* URLs: the host and the station the path names.
Url(host, sid) == [host |-> host, id |-> sid]

\* The values a Location header can carry.
LocationUrls == {Url("cdn1", 0), Url("cdn2", 0)}

\* Response headers are a set of <<name, value>> pairs; dict.get on them.
HeadersGet(headers, name, default) ==
    IF \E h \in headers : h[1] = name
    THEN (CHOOSE h \in headers : h[1] = name)[2]
    ELSE default

\* What the HEAD probe of url can come to: a transport or TLS error, or a
\* response whose url is the probed one.
ProbeOutcomes(url) ==
    {[ok |-> FALSE, status |-> 0, headers |-> {}, url |-> url]}
    \cup {[ok |-> TRUE, status |-> st, headers |-> hs, url |-> url] :
             st \in StatusCodes,
             hs \in {{}} \cup {{<<"Location", l>>} : l \in LocationUrls}}

\* ------------------------------------------------------ pure functions
\* geopy.distance.geodesic on one line of positions.
Dist(place, point) == Abs(place.geo - point)

RECURSIVE InsertByDistBeforeEqual(_, _, _)
InsertByDistBeforeEqual(p, sorted, point) ==
    IF sorted = <<>> THEN <<p>>
    ELSE IF Dist(p, point) <= Dist(Head(sorted), point)
         THEN <<p>> \o sorted
         ELSE <<Head(sorted)>>
              \o InsertByDistBeforeEqual(p, Tail(sorted), point)

\* list.sort(key=_dist): stable, ascending.
RECURSIVE InsertByDist(_, _, _)
InsertByDist(p, sorted, point) ==
    IF sorted = <<>> THEN <<p>>
    ELSE IF Dist(p, point) < Dist(Head(sorted), point)
         THEN <<p>> \o sorted
         ELSE <<Head(sorted)>> \o InsertByDist(p, Tail(sorted), point)

RECURSIVE SortByDist(_, _)
SortByDist(ps, point) ==
    IF ps = <<>> THEN <<>>
    ELSE InsertByDist(ps[Len(ps)],
                      SortByDist(SubSeq(ps, 1, Len(ps) - 1), point), point)

PlaceSize(place) == place.size

RECURSIVE CollectPlacesWithinBudget(_, _, _, _)
CollectPlacesWithinBudget(sorted, budget, total_size, acc) ==
    IF sorted = <<>> \/ total_size + PlaceSize(Head(sorted)) > budget THEN acc
    ELSE CollectPlacesWithinBudget(Tail(sorted), budget,
                                   total_size + PlaceSize(Head(sorted)),
                                   Append(acc, Head(sorted)))

\* The loop collecting places until their sizes reach the budget.
RECURSIVE CollectPlaces(_, _, _, _)
CollectPlaces(sorted, budget, total_size, acc) ==
    IF sorted = <<>> \/ total_size >= budget THEN acc
    ELSE CollectPlaces(Tail(sorted), budget,
                       total_size + PlaceSize(Head(sorted)),
                       Append(acc, Head(sorted)))

SelectPlacesAll(ps, point, budget) == SortByDist(ps, point)

SelectPlaces(ps, point, budget) ==
    CollectPlaces(SortByDist(ps, point), budget, 0, <<>>)

\* random.sample(items, k) for 0 <= k <= len(items): every sequence of k
\* distinct positions of items.
Samples(items, k) ==
    IF k = 0 THEN {<<>>}
    ELSE {[j \in 1..k |-> items[f[j]]] :
            f \in {g \in [1..k -> 1..Len(items)] :
                     \A a, b \in 1..k : a # b => g[a] # g[b]}}

\* What one place's listing adds to channels; random.sample raises
\* ValueError on a negative count, which the except clause turns into a skip.
Extensions(items, is_last, remaining) ==
    IF is_last /\ Len(items) > remaining
    THEN IF remaining < 0 THEN {<<>>} ELSE Samples(items, remaining)
    ELSE {items}

\* The channels the selection mode can pick.
Picks(chs, mode) ==
    IF mode = "nearest" THEN {chs[1]}
    ELSE IF mode = "popular" THEN {chs[1]}
    ELSE {chs[i] : i \in 1..Len(chs)}

CanonicalUrl(station_id) == Url("radio.garden", station_id)

GetStreamUrlIgnoresLocation(station_id, outcome) ==
    LET url == CanonicalUrl(station_id) IN
    IF ~outcome.ok THEN url ELSE outcome.url

\* get_stream_url, given what the probe came to.
GetStreamUrl(station_id, outcome) ==
    LET url == CanonicalUrl(station_id) IN
    IF ~outcome.ok THEN url
    ELSE IF outcome.status \in RedirectCodes
         THEN HeadersGet(outcome.headers, "Location", url)
         ELSE outcome.url

PlaceInfoOfChannel(sel, channel) ==
    LET pid == PlaceOfStation(channel.page.url[Len(channel.page.url)]) IN
    sel[CHOOSE i \in 1..Len(sel) : sel[i].id = pid]

\* The place the result's location and country come from.
PlaceInfo(sel, channel) == sel[1]

\* The dict find_nearest_stations returns.
StationResult(channel, place_info, stream_url) ==
    [status |-> "ok",
     station_name |-> channel.page.title,
     station_id |-> channel.page.url[Len(channel.page.url)],
     location |-> place_info.title,
     country |-> place_info.country,
     stream_url |-> stream_url]

Raised(error) == [status |-> "raised", error |-> error]

\* -------------------------------------------------- coordinates.py
\* Python floats as exact fractions [num, den] in lowest terms, den > 0.
RECURSIVE Gcd(_, _)
Gcd(a, b) == IF b = 0 THEN a ELSE Gcd(b, a % b)

Frac(n, d) ==
    LET g == Gcd(Abs(n), Abs(d))
        sign == IF d < 0 THEN -1 ELSE 1
    IN [num |-> (sign * n) \div g, den |-> (sign * d) \div g]

FracInt(n) == [num |-> n, den |-> 1]
FracAdd(a, b) == Frac(a.num * b.den + b.num * a.den, a.den * b.den)
FracSub(a, b) == Frac(a.num * b.den - b.num * a.den, a.den * b.den)
FracScale(a, k) == Frac(a.num * k, a.den)
FracLe(a, b) == a.num * b.den <= b.num * a.den
FracMin(a, b) == IF FracLe(b, a) THEN b ELSE a
FracMax(a, b) == IF FracLe(a, b) THEN b ELSE a

ClampNone(norm) == norm

\* max(0.0, min(1.0, norm))
Clamp01(norm) == FracMax(FracInt(0), FracMin(FracInt(1), norm))

PixelToLatLonSouthUp(cal, x, y) ==
    LET touch_width == cal.touch_max_x - cal.touch_min_x
        touch_height == cal.touch_max_y - cal.touch_min_y
        norm_x == Clamp01(Frac(x - cal.touch_min_x, touch_width))
        norm_y == Clamp01(Frac(y - cal.touch_min_y, touch_height))
    IN [lat |-> FracAdd(FracInt(cal.map_south),
                        FracScale(norm_y, cal.map_north - cal.map_south)),
        lon |-> FracAdd(FracInt(cal.map_west),
                        FracScale(norm_x, cal.map_east - cal.map_west))]

\* CoordinateConverter.pixel_to_latlon(x, y) under the calibration cal.
PixelToLatLon(cal, x, y) ==
    LET touch_width == cal.touch_max_x - cal.touch_min_x
        touch_height == cal.touch_max_y - cal.touch_min_y
        norm_x == Clamp01(Frac(x - cal.touch_min_x, touch_width))
        norm_y == Clamp01(Frac(y - cal.touch_min_y, touch_height))
    IN [lat |-> FracSub(FracInt(cal.map_north),
                        FracScale(norm_y, cal.map_north - cal.map_south)),
        lon |-> FracAdd(FracInt(cal.map_west),
                        FracScale(norm_x, cal.map_east - cal.map_west))]

Calibration(min_x, max_x, min_y, max_y, north, south, west, east) ==
    [touch_min_x |-> min_x, touch_max_x |-> max_x,
     touch_min_y |-> min_y, touch_max_y |-> max_y,
     map_north |-> north, map_south |-> south,
     map_west |-> west, map_east |-> east]

\* The defaults of CoordinateConverter: a 1024x600 panel on the whole world.
DefaultCalibration == Calibration(0, 1024, 0, 600, 90, -90, -180, 180)

\* Touch ranges on a small panel, either way round, never empty.
TouchRanges ==
    {r \in (0..1) \X (0..MaxPanel) : r[1] # r[2]}

\* Map ranges <<low, high>> in degrees.
MapRanges ==
    {r \in (-MaxMap..MaxMap) \X (-MaxMap..MaxMap) : r[1] < r[2]}

Calibrations ==
    {DefaultCalibration}
    \cup {Calibration(tx[1], tx[2], ty[1], ty[2], ns[2], ns[1], we[1], we[2]) :
            tx \in TouchRanges, ty \in TouchRanges,
            ns \in MapRanges, we \in MapRanges}

\* The coordinates a touch can report on one axis of a panel: the ends of the
\* range, its middle, and their neighbours inside and outside.
TouchCoords(a, b) ==
    LET lo == IF a < b THEN a ELSE b
        hi == IF a < b THEN b ELSE a
    IN {lo - 1, lo, lo + 1, (lo + hi) \div 2, hi - 1, hi, hi + 1}

\* The panel of the running server spans the line the places lie on.
LineCalibration ==
    Calibration(0, 2 * (MaxPlaces - 1), 0, 1, 1, -1, 0, 2 * (MaxPlaces - 1))

\* ------------------------------------------------- upnp_streamer.py
\* Strings whose letters matter are sequences of characters.
LowerChar(c) ==
    CASE c = "W" -> "w"
      [] c = "M" -> "m"
      [] c = "T" -> "t"
      [] c = "V" -> "v"
      [] OTHER -> c

\* str.lower()
Lower(str) == [i \in 1..Len(str) |-> LowerChar(str[i])]

\* sub in str
Contains(sub, str) ==
    \E i \in 1..(Len(str) - Len(sub) + 1) :
        SubSeq(str, i, i + Len(sub) - 1) = sub

\* An optional configuration value: config.get(key) is None when not set.
Some(v) == [set |-> TRUE, value |-> v]
NoName == [set |-> FALSE, value |-> <<>>]
NoVolume == [set |-> FALSE, value |-> 0]

DeviceNames ==
    {NoName, Some(<<"w", "i", "i", "m">>), Some(<<"T", "V">>)}
Volumes == {NoVolume, Some(0), Some(30)}

AVTransport == "urn:schemas-upnp-org:service:AVTransport:1"
RenderingControl == "urn:schemas-upnp-org:service:RenderingControl:1"

\* The device found at location i of the network: a renderer with volume
\* control, a renderer without it, a device that is no renderer, a device
\* whose description cannot be fetched; further locations repeat these.
Device(i) ==
    CASE i % 4 = 1 ->
           [location |-> i, described |-> TRUE,
            services |-> {AVTransport, RenderingControl},
            friendly_name |-> <<"m", "y", "W", "i", "i", "M">>]
      [] i % 4 = 2 ->
           [location |-> i, described |-> TRUE,
            services |-> {AVTransport},
            friendly_name |-> <<"t", "v">>]
      [] i % 4 = 3 ->
           [location |-> i, described |-> TRUE,
            services |-> {RenderingControl},
            friendly_name |-> <<"W", "i", "i", "M">>]
      [] OTHER ->
           [location |-> i, described |-> FALSE,
            services |-> {},
            friendly_name |-> <<>>]

\* device.service(service_type), as "is not None".
HasService(dev, service_type) == service_type \in Device(dev).services

\* What async_search can come to: an error, or the SSDP responses in arrival
\* order, each with the location it names (0: no location header).
SearchOutcomesUpTo(max) ==
    {[ok |-> FALSE, responses |-> <<>>]}
    \cup UNION {{[ok |-> TRUE, responses |-> r] :
                    r \in [1..n -> 0..MaxDevices]} : n \in 0..max}

SearchOutcomes == SearchOutcomesUpTo(MaxResponses)

\* _on_response over the responses: the locations, each once, in the order
\* of their first response.
RECURSIVE Locations(_)
Locations(responses) ==
    IF responses = <<>> THEN <<>>
    ELSE LET before == Locations(SubSeq(responses, 1, Len(responses) - 1))
             location == responses[Len(responses)]
         IN IF location # 0 /\ \A i \in 1..Len(before) : before[i] # location
            THEN Append(before, location)
            ELSE before

NameMatchesExactCase(filter, name) ==
    ~filter.set \/ Contains(filter.value, name)

\* self.device_name is None or self.device_name.lower() in name.lower()
NameMatches(filter, name) ==
    ~filter.set \/ Contains(Lower(filter.value), Lower(name))

QualifiesWithoutService(location, filter) ==
    /\ Device(location).described
    /\ NameMatches(filter, Device(location).friendly_name)

\* The body of the loop over locations: does this one get selected?
Qualifies(location, filter) ==
    /\ Device(location).described
    /\ HasService(location, AVTransport)
    /\ NameMatches(filter, Device(location).friendly_name)

\* The loop over locations: the first one selected, 0 when none is.
RECURSIVE FirstQualifying(_, _)
FirstQualifying(locations, filter) ==
    IF locations = <<>> THEN 0
    ELSE IF Qualifies(Head(locations), filter) THEN Head(locations)
         ELSE FirstQualifying(Tail(locations), filter)

\* The record of one call of discover, play or stop: the device held before
\* and after, the search it made, the control actions it issued in order,
\* and what it returned.
Call(op, before, after, search, actions, ret, name) ==
    [op |-> op, before |-> before, after |-> after,
     searched |-> search.made, search_ok |-> search.ok,
     responses |-> search.responses, actions |-> actions, ret |-> ret,
     name |-> name]

NoSearch == [made |-> FALSE, ok |-> FALSE, responses |-> <<>>]
Searched(search) ==
    [made |-> TRUE, ok |-> search.ok, responses |-> search.responses]

NoCall == Call("none", 0, 0, NoSearch, <<>>, "nothing", <<>>)

\* One control action of the renderer and whether it succeeded.
Action(name, ok) == [name |-> name, ok |-> ok]

\* UpnpStreamer.discover() with the device dev held and the search coming to
\* search.
DiscoverRun(dev, filter, search) ==
    IF ~search.ok
    THEN Call("discover", dev, dev, Searched(search), <<>>, "raised", <<>>)
    ELSE LET found == FirstQualifying(Locations(search.responses), filter)
         IN IF found = 0
            THEN Call("discover", dev, dev, Searched(search), <<>>, "None",
                      <<>>)
            ELSE Call("discover", dev, found, Searched(search), <<>>,
                      "name", Device(found).friendly_name)

\* What the network does to one call of play with the device dev held: the
\* search of its discovery, made only when no device is held, and the
\* success of each control action, for those that get issued.
PlayEnvs(dev, searches) ==
    [search : IF dev = 0 THEN searches
              ELSE {[ok |-> TRUE, responses |-> <<>>]},
     stop_ok : BOOLEAN, volume_ok : BOOLEAN,
     uri_ok : BOOLEAN, play_ok : BOOLEAN]

BestEffortAlwaysVolume(held, volume, env) ==
    <<Action("Stop", env.stop_ok), Action("SetVolume", env.volume_ok)>>

\* The Stop action and, with a default volume, the SetVolume action of play:
\* their failures are swallowed.
BestEffort(held, volume, env) ==
    <<Action("Stop", env.stop_ok)>>
    \o (IF volume.set /\ HasService(held, RenderingControl)
        THEN <<Action("SetVolume", env.volume_ok)>>
        ELSE <<>>)

TransportPlayAnyway(env) ==
    [actions |-> <<Action("SetAVTransportURI", env.uri_ok),
                   Action("Play", env.play_ok)>>,
     ret |-> IF env.play_ok THEN "True" ELSE "False"]

\* The SetAVTransportURI and Play actions of play: the first failure ends
\* the call.
Transport(env) ==
    IF ~env.uri_ok
    THEN [actions |-> <<Action("SetAVTransportURI", FALSE)>>,
          ret |-> "False"]
    ELSE [actions |-> <<Action("SetAVTransportURI", TRUE),
                        Action("Play", env.play_ok)>>,
          ret |-> IF env.play_ok THEN "True" ELSE "False"]

PlayRunWithoutDevice(dev, filter, volume, env) ==
    LET d == DiscoverRun(dev, filter, env.search)
        search == IF dev = 0 THEN Searched(env.search) ELSE NoSearch
        held == IF dev = 0 THEN d.after ELSE dev
        transport == Transport(env)
    IN IF dev = 0 /\ d.ret = "raised"
       THEN Call("play", dev, dev, search, <<>>, "raised", <<>>)
       ELSE Call("play", dev, held, search,
                 BestEffort(held, volume, env) \o transport.actions,
                 IF held = 0 THEN "False" ELSE transport.ret, <<>>)

\* UpnpStreamer.play(stream_url, title) with the device dev held.
PlayRun(dev, filter, volume, env) ==
    LET d == DiscoverRun(dev, filter, env.search)
        search == IF dev = 0 THEN Searched(env.search) ELSE NoSearch
        held == IF dev = 0 THEN d.after ELSE dev
        transport == Transport(env)
    IN IF dev = 0 /\ d.ret = "raised"
       THEN Call("play", dev, dev, search, <<>>, "raised", <<>>)
       ELSE IF dev = 0 /\ d.ret = "None"
       THEN Call("play", dev, dev, search, <<>>, "False", <<>>)
       ELSE IF ~HasService(held, AVTransport)
       THEN Call("play", dev, held, search, <<>>, "False", <<>>)
       ELSE Call("play", dev, held, search,
                 BestEffort(held, volume, env) \o transport.actions,
                 transport.ret, <<>>)

StopRunWithoutDevice(dev, stop_ok) ==
    Call("stop", dev, dev, NoSearch, <<Action("Stop", stop_ok)>>,
         IF stop_ok THEN "True" ELSE "False", <<>>)

\* UpnpStreamer.stop() with the device dev held.
StopRun(dev, stop_ok) ==
    IF dev = 0
    THEN Call("stop", dev, dev, NoSearch, <<>>, "True", <<>>)
    ELSE IF ~HasService(dev, AVTransport)
    THEN Call("stop", dev, dev, NoSearch, <<>>, "False", <<>>)
    ELSE Call("stop", dev, dev, NoSearch, <<Action("Stop", stop_ok)>>,
              IF stop_ok THEN "True" ELSE "False", <<>>)

\* The characters of titles and URLs that matter to the template, and one
\* that does not.
Chars == {"&", "<", "a"}
Texts == UNION {[1..n -> Chars] : n \in 0..MaxText}

Amp == <<"&", "a", "m", "p", ";">>
Lt == <<"&", "l", "t", ";">>

\* str.replace(old, new) for a one-character old.
RECURSIVE Replace(_, _, _)
Replace(str, old, new) ==
    IF str = <<>> THEN <<>>
    ELSE (IF Head(str) = old THEN new ELSE <<Head(str)>>)
         \o Replace(Tail(str), old, new)

\* safe_title and safe_url of play.
SafeTitle(title) == Replace(Replace(title, "&", Amp), "<", Lt)
SafeUrl(stream_url) == Replace(stream_url, "&", Amp)

\* DIDL_TEMPLATE.format(title=safe_title, url=safe_url): the text put into
\* the dc:title element and the text put into the res element.
Didl(title, stream_url) ==
    [title |-> SafeTitle(title), url |-> SafeUrl(stream_url)]

NoMetadata ==
    [built |-> FALSE, title |-> <<>>, url |-> <<>>,
     payload |-> [title |-> <<>>, url |-> <<>>]]

\* ------------------------------------------- main.py, mqtt_handler.py
\* MqttHandler.publish_status(state, msg) and publish_now_playing(...).
Status(state, msg) == [topic |-> "status", state |-> state, msg |-> msg]
NowPlaying(station, location, country) ==
    [topic |-> "nowplaying", station |-> station, location |-> location,
     country |-> country]

Commands == {"stop", "replay", "volume"}

\* An event with what its handler has come to so far: the outcome of the
\* lookup and of play, and what the handler did, in order.
Event(kind, x, y, cmd, latlon, lookup, play) ==
    [kind |-> kind, x |-> x, y |-> y, cmd |-> cmd, latlon |-> latlon,
     lookup |-> lookup, play |-> play, steps |-> <<>>]

\* The messages of the subscribed topics, as _on_message reads them: whether
\* the payload is JSON, whether it has x and y, its cmd ("" when it has none).
Message(topic, json_ok, has_xy, x, y, cmd) ==
    [topic |-> topic, json_ok |-> json_ok, has_xy |-> has_xy, x |-> x,
     y |-> y, cmd |-> cmd]

TouchMessage(x, y) == Message("touch", TRUE, TRUE, x, y, "")
CommandMessage(cmd) == Message("command", TRUE, FALSE, 0, 0, cmd)
BadMessages ==
    {Message("touch", FALSE, FALSE, 0, 0, ""),
     Message("touch", TRUE, FALSE, 0, 0, ""),
     CommandMessage("")}

\* _on_message returns without calling a handler.
Ignored(msg) ==
    \/ ~msg.json_ok
    \/ msg.topic = "touch" /\ ~msg.has_xy
    \/ msg.topic = "command" /\ msg.cmd = ""

NoLatLon == [lat |-> FracInt(0), lon |-> FracInt(0)]
NoEvent == Event("none", 0, 0, "", NoLatLon, "none", "none")

\* ---------------------------------------------------------------- state
NoProjection == [called |-> FALSE, x |-> 0, y |-> 0, latlon |-> NoLatLon]

NoProbe ==
    [called |-> FALSE, station_id |-> 0,
     outcome |-> [ok |-> FALSE, status |-> 0, headers |-> {},
                  url |-> CanonicalUrl(0)],
     returned |-> CanonicalUrl(0)]

InitRadio ==
    /\ n_stations \in 1..MaxBudget
    /\ selection_mode \in Modes
    /\ places = <<>>
    /\ places_fetched_at = 0
    /\ now = CacheTtl
    /\ last_fetch = [done |-> FALSE, list |-> <<>>]
    /\ pc = "idle"
    /\ target = 0
    /\ selected_places = <<>>
    /\ channels = <<>>
    /\ fetched = <<>>
    /\ calls = <<>>
    /\ result = [status |-> "none"]
    /\ probe = NoProbe

InitConverter ==
    /\ calibration = LineCalibration
    /\ projected = NoProjection

InitStreamer ==
    /\ device_name = NoName
    /\ default_volume = NoVolume
    /\ device = 0
    /\ last_call = NoCall
    /\ metadata = NoMetadata

InitHandler ==
    /\ hpc = "start"
    /\ event = NoEvent
    /\ published = <<>>
    /\ inbox = <<>>

Init == InitRadio /\ InitConverter /\ InitStreamer /\ InitHandler

config == <<n_stations, selection_mode>>
radio == <<config, places, places_fetched_at, now, last_fetch, pc, target,
           selected_places, channels, fetched, calls, result, probe>>

\* Time passes between two lookups.
Tick ==
    /\ pc = "idle"
    /\ now < Horizon
    /\ now' = now + 1
    /\ UNCHANGED others
    /\ UNCHANGED <<config, places, places_fetched_at, last_fetch, pc, target,
                   selected_places, channels, fetched, calls, result, probe>>

\* find_nearest_stations after _refresh_places_if_needed returned: rank the
\* places ps, collect the nearest ones, raise when there is none.
RankAndSelect(ps, point) ==
    LET sel == SelectPlaces(ps, point, n_stations) IN
    /\ target' = point
    /\ selected_places' = sel
    /\ channels' = <<>>
    /\ fetched' = <<>>
    /\ IF sel = <<>>
       THEN /\ pc' = "done"
            /\ result' = Raised("NoPlaces")
       ELSE /\ pc' = "fetch"
            /\ result' = [status |-> "none"]

CacheIsFreshInclusive ==
    places # <<>> /\ (now - places_fetched_at) <= CacheTtl

\* The test that opens _refresh_places_if_needed.
CacheIsFresh == places # <<>> /\ (now - places_fetched_at) < CacheTtl

\* find_nearest_stations(lat, lon) with the snapshot still valid.
LookupCached(point) ==
    /\ pc = "idle"
    /\ CacheIsFresh
    /\ calls' = <<>>
    /\ RankAndSelect(places, point)
    /\ UNCHANGED others
    /\ UNCHANGED <<config, places, places_fetched_at, now, last_fetch, probe>>

\* find_nearest_stations(lat, lon) with GET /places answering list after
\* delay ticks.
LookupRefreshed(point, list, delay) ==
    /\ pc = "idle"
    /\ ~CacheIsFresh
    /\ now + delay <= Horizon
    /\ now' = now + delay
    /\ places' = list
    /\ places_fetched_at' = now'
    /\ last_fetch' = [done |-> TRUE, list |-> list]
    /\ calls' = << <<"GET places", 0>> >>
    /\ RankAndSelect(list, point)
    /\ UNCHANGED others
    /\ UNCHANGED <<config, probe>>

LookupRefreshFailedClears(point, delay) ==
    /\ pc = "idle"
    /\ ~CacheIsFresh
    /\ now + delay <= Horizon
    /\ now' = now + delay
    /\ calls' = << <<"GET places", 0>> >>
    /\ result' = Raised("HTTPError")
    /\ target' = point
    /\ selected_places' = <<>>
    /\ channels' = <<>>
    /\ fetched' = <<>>
    /\ pc' = "done"
    /\ places' = <<>>
    /\ places_fetched_at' = 0
    /\ UNCHANGED others
    /\ UNCHANGED <<config, last_fetch, probe>>

\* find_nearest_stations(lat, lon) with GET /places failing after delay
\* ticks: the exception leaves _refresh_places_if_needed and the lookup.
LookupRefreshFailed(point, delay) ==
    /\ pc = "idle"
    /\ ~CacheIsFresh
    /\ now + delay <= Horizon
    /\ now' = now + delay
    /\ calls' = << <<"GET places", 0>> >>
    /\ result' = Raised("HTTPError")
    /\ target' = point
    /\ selected_places' = <<>>
    /\ channels' = <<>>
    /\ fetched' = <<>>
    /\ pc' = "done"
    /\ UNCHANGED others
    /\ UNCHANGED <<config, places, places_fetched_at, last_fetch, probe>>

CurrentPlaceFarthestFirst ==
    selected_places[Len(selected_places) - Len(fetched)]

\* One pass of the channel loop: the place whose turn it is.
CurrentPlace == selected_places[Len(fetched) + 1]

AfterFetch ==
    pc' = IF Len(fetched') = Len(selected_places) THEN "pick" ELSE "fetch"

\* GET /page/{id}/channels answers a listing of n channels.
FetchChannels(n) ==
    /\ pc = "fetch"
    /\ LET place == CurrentPlace
           items == Listing(place.id, n)
           remaining == n_stations - Len(channels)
           is_last == Len(fetched) + 1 = Len(selected_places)
       IN /\ \E ext \in Extensions(items, is_last, remaining) :
                /\ channels' = channels \o ext
                /\ fetched' = Append(fetched,
                                [ok |-> TRUE, n |-> n, taken |-> Len(ext)])
          /\ calls' = Append(calls, <<"GET channels", place.id>>)
    /\ AfterFetch
    /\ UNCHANGED others
    /\ UNCHANGED <<config, places, places_fetched_at, now, last_fetch, target,
                   selected_places, result, probe>>

FetchChannelsFailedAborts ==
    /\ pc = "fetch"
    /\ fetched' = Append(fetched, [ok |-> FALSE, n |-> 0, taken |-> 0])
    /\ calls' = Append(calls, <<"GET channels", CurrentPlace.id>>)
    /\ pc' = "done"
    /\ result' = Raised("NoChannels")
    /\ UNCHANGED others
    /\ UNCHANGED <<config, places, places_fetched_at, now, last_fetch, target,
                   selected_places, channels, probe>>

\* GET /page/{id}/channels fails: logged, the place is skipped.
FetchChannelsFailed ==
    /\ pc = "fetch"
    /\ fetched' = Append(fetched, [ok |-> FALSE, n |-> 0, taken |-> 0])
    /\ calls' = Append(calls, <<"GET channels", CurrentPlace.id>>)
    /\ AfterFetch
    /\ UNCHANGED others
    /\ UNCHANGED <<config, places, places_fetched_at, now, last_fetch, target,
                   selected_places, channels, result, probe>>

\* No channel was collected: the lookup raises.
RaiseNoChannels ==
    /\ pc = "pick"
    /\ channels = <<>>
    /\ pc' = "done"
    /\ result' = Raised("NoChannels")
    /\ UNCHANGED others
    /\ UNCHANGED <<config, places, places_fetched_at, now, last_fetch, target,
                   selected_places, channels, fetched, calls, probe>>

\* Pick a station, resolve its stream URL and return.
PickStation ==
    /\ pc = "pick"
    /\ channels # <<>>
    /\ \E channel \in Picks(channels, selection_mode) :
         LET station_id == channel.page.url[Len(channel.page.url)] IN
         \E outcome \in ProbeOutcomes(CanonicalUrl(station_id)) :
            /\ result' = StationResult(channel,
                                       PlaceInfo(selected_places, channel),
                                       GetStreamUrl(station_id, outcome))
            /\ calls' = Append(calls, <<"HEAD listen", station_id>>)
    /\ pc' = "done"
    /\ UNCHANGED others
    /\ UNCHANGED <<config, places, places_fetched_at, now, last_fetch, target,
                   selected_places, channels, fetched, probe>>

\* The caller has the outcome; the locals of the lookup are gone.
Return ==
    /\ pc = "done"
    /\ pc' = "idle"
    /\ selected_places' = <<>>
    /\ channels' = <<>>
    /\ fetched' = <<>>
    /\ calls' = <<>>
    /\ result' = [status |-> "none"]
    /\ target' = 0
    /\ UNCHANGED others
    /\ UNCHANGED <<config, places, places_fetched_at, now, last_fetch, probe>>

Next ==
    \/ Tick
    \/ \E point \in Points : LookupCached(point)
    \/ \E point \in Points, list \in Catalogs, delay \in 0..MaxDelay :
          LookupRefreshed(point, list, delay)
    \/ \E point \in Points, delay \in 0..MaxDelay :
          LookupRefreshFailed(point, delay)
    \/ \E n \in 0..MaxItems : FetchChannels(n)
    \/ FetchChannelsFailed
    \/ RaiseNoChannels
    \/ PickStation
    \/ Return

Spec == Init /\ [][Next]_vars

\* ------------------------------------------- get_stream_url on its own
\* The station ids a channel can carry.
StationIds == {StationId(pid, k) : pid \in 1..MaxPlaces, k \in 1..MaxItems}

\* get_stream_url(station_id) with the probe coming to outcome.
ResolveStream(station_id, outcome) ==
    /\ probe' = [called |-> TRUE, station_id |-> station_id,
                 outcome |-> outcome,
                 returned |-> GetStreamUrl(station_id, outcome)]
    /\ UNCHANGED others
    /\ UNCHANGED <<config, places, places_fetched_at, now, last_fetch, pc,
                   target, selected_places, channels, fetched, calls, result>>

NextResolve ==
    \E station_id \in StationIds :
        \E outcome \in ProbeOutcomes(CanonicalUrl(station_id)) :
            ResolveStream(station_id, outcome)

SpecResolve == Init /\ [][NextResolve]_vars

\* ------------------------------------------ pixel_to_latlon on its own
\* The configuration the client has when nothing is configured, within the
\* bounds.
RadioDefaults == n_stations = MaxBudget /\ selection_mode = "random"

InitProject ==
    /\ InitRadio /\ RadioDefaults
    /\ calibration \in Calibrations
    /\ projected = NoProjection
    /\ InitStreamer
    /\ InitHandler

\* pixel_to_latlon(x, y)
Project(x, y) ==
    /\ projected' = [called |-> TRUE, x |-> x, y |-> y,
                     latlon |-> PixelToLatLon(calibration, x, y)]
    /\ UNCHANGED <<radio, calibration, streamer, server>>

NextProject ==
    \E x \in TouchCoords(calibration.touch_min_x, calibration.touch_max_x),
       y \in TouchCoords(calibration.touch_min_y, calibration.touch_max_y) :
        Project(x, y)

SpecProject == InitProject /\ [][NextProject]_vars

\* ------------------------------------------------ the streamer on its own
InitUpnp ==
    /\ InitRadio /\ RadioDefaults
    /\ InitConverter
    /\ device_name \in DeviceNames
    /\ default_volume \in Volumes
    /\ device = 0
    /\ last_call = NoCall
    /\ metadata = NoMetadata
    /\ InitHandler

\* discover()
Discover(search) ==
    /\ last_call = NoCall
    /\ last_call' = DiscoverRun(device, device_name, search)
    /\ device' = last_call'.after
    /\ UNCHANGED <<radio, converter, device_name, default_volume, metadata,
                   server>>

\* play(stream_url, title)
Play(env) ==
    /\ last_call = NoCall
    /\ last_call' = PlayRun(device, device_name, default_volume, env)
    /\ device' = last_call'.after
    /\ UNCHANGED <<radio, converter, device_name, default_volume, metadata,
                   server>>

\* stop()
Stop(stop_ok) ==
    /\ last_call = NoCall
    /\ last_call' = StopRun(device, stop_ok)
    /\ device' = last_call'.after
    /\ UNCHANGED <<radio, converter, device_name, default_volume, metadata,
                   server>>

\* The caller has what the call returned or raised.
Returned ==
    /\ last_call # NoCall
    /\ last_call' = NoCall
    /\ UNCHANGED <<radio, converter, device_name, default_volume, metadata,
                   device, server>>

NextUpnp ==
    \/ \E search \in SearchOutcomes : Discover(search)
    \/ \E env \in PlayEnvs(device, SearchOutcomes) : Play(env)
    \/ \E stop_ok \in BOOLEAN : Stop(stop_ok)
    \/ Returned

SpecUpnp == InitUpnp /\ [][NextUpnp]_vars

\* --------------------------------------------------- the running server
\* A server with a budget of one station, the nearest one, and no device
\* name configured.
\* The searches of the running server get at most one response.
ServerSearches == SearchOutcomesUpTo(1)

InitServer ==
    /\ InitRadio /\ n_stations = 1 /\ selection_mode = "nearest"
    /\ InitConverter
    /\ device_name = NoName
    /\ default_volume \in Volumes
    /\ device = 0
    /\ last_call = NoCall
    /\ metadata = NoMetadata
    /\ InitHandler

\* RadioWallServer.start(): discovery, its failure logged, then the MQTT loop.
Start(search) ==
    /\ hpc = "start"
    /\ last_call' = DiscoverRun(device, device_name, search)
    /\ device' = last_call'.after
    /\ hpc' = "started"
    /\ UNCHANGED <<radio, converter, device_name, default_volume, metadata,
                   event, published, inbox>>

HandleTouchReentrant(x, y) ==
    /\ hpc \in {"wait", "lookup", "handled"}
    /\ inbox # <<>>
    /\ Head(inbox) = TouchMessage(x, y)
    /\ inbox' = Tail(inbox)
    /\ event' = [Event("touch", x, y, "",
                       PixelToLatLon(calibration, x, y), "none", "none")
                 EXCEPT !.steps = <<"publish">>]
    /\ published' = <<Status("loading", "")>>
    /\ hpc' = "lookup"
    /\ UNCHANGED <<radio, converter, streamer>>

\* _handle_touch(x, y) up to the call of find_nearest_stations.
HandleTouch(x, y) ==
    /\ hpc = "wait"
    /\ inbox # <<>>
    /\ Head(inbox) = TouchMessage(x, y)
    /\ inbox' = Tail(inbox)
    /\ event' = [Event("touch", x, y, "",
                       PixelToLatLon(calibration, x, y), "none", "none")
                 EXCEPT !.steps = <<"publish">>]
    /\ published' = <<Status("loading", "")>>
    /\ hpc' = "lookup"
    /\ UNCHANGED <<radio, converter, streamer>>

\* The point find_nearest_stations is called with: the touch's longitude on
\* the line of the places.
EventPoint == event.latlon.lon.num

\* The lookup of the touch handler starts.
TouchLookupCached ==
    /\ hpc = "lookup"
    /\ LookupCached(EventPoint)

TouchLookupRefreshed(list) ==
    /\ hpc = "lookup"
    /\ LookupRefreshed(EventPoint, list, 0)

TouchLookupRefreshFailed ==
    /\ hpc = "lookup"
    /\ LookupRefreshFailed(EventPoint, 0)

\* find_nearest_stations has returned or raised: its locals are gone.
LookupOver ==
    /\ pc' = "idle"
    /\ selected_places' = <<>>
    /\ channels' = <<>>
    /\ fetched' = <<>>
    /\ calls' = <<>>
    /\ result' = [status |-> "none"]
    /\ target' = 0
    /\ UNCHANGED <<config, places, places_fetched_at, now, last_fetch, probe>>

TouchLookupFailedStops ==
    /\ hpc = "lookup"
    /\ pc = "done"
    /\ result.status = "raised"
    /\ last_call' = StopRun(device, TRUE)
    /\ published' = Append(published, Status("error", "No stations found"))
    /\ event' = [event EXCEPT !.lookup = "raised",
                              !.steps = @ \o <<"lookup", "publish">>]
    /\ hpc' = "handled"
    /\ LookupOver
    /\ UNCHANGED <<converter, device_name, default_volume, metadata, device,
                   inbox>>

\* The lookup raised: the except clause of _handle_touch.
TouchLookupFailed ==
    /\ hpc = "lookup"
    /\ pc = "done"
    /\ result.status = "raised"
    /\ published' = Append(published, Status("error", "No stations found"))
    /\ event' = [event EXCEPT !.lookup = "raised",
                              !.steps = @ \o <<"lookup", "publish">>]
    /\ hpc' = "handled"
    /\ LookupOver
    /\ UNCHANGED <<converter, streamer, inbox>>

TouchPlayRediscovers(env) ==
    /\ hpc = "lookup"
    /\ pc = "done"
    /\ result.status = "ok"
    /\ last_call' = PlayRun(device, device_name, default_volume, env)
    /\ device' = IF last_call'.ret = "False" THEN 0 ELSE last_call'.after
    /\ published' =
         IF last_call'.ret = "True"
         THEN published \o <<NowPlaying(result.station_name, result.location,
                                        result.country),
                             Status("playing", "")>>
         ELSE IF last_call'.ret = "False"
         THEN Append(published, Status("error", "Playback failed"))
         ELSE published
    /\ event' = [event EXCEPT
                    !.lookup = "ok", !.play = last_call'.ret,
                    !.steps = @ \o <<"lookup", "play">>
                              \o [i \in 1..(Len(published') - Len(published))
                                    |-> "publish"]]
    /\ hpc' = IF last_call'.ret = "raised" THEN "crashed" ELSE "handled"
    /\ LookupOver
    /\ UNCHANGED <<converter, device_name, default_volume, metadata, inbox>>

\* The lookup returned a station: the rest of _handle_touch.  An exception
\* of play leaves the handler.
TouchPlay(env) ==
    /\ hpc = "lookup"
    /\ pc = "done"
    /\ result.status = "ok"
    /\ last_call' = PlayRun(device, device_name, default_volume, env)
    /\ device' = last_call'.after
    /\ published' =
         IF last_call'.ret = "True"
         THEN published \o <<NowPlaying(result.station_name, result.location,
                                        result.country),
                             Status("playing", "")>>
         ELSE IF last_call'.ret = "False"
         THEN Append(published, Status("error", "Playback failed"))
         ELSE published
    /\ event' = [event EXCEPT
                    !.lookup = "ok", !.play = last_call'.ret,
                    !.steps = @ \o <<"lookup", "play">>
                              \o [i \in 1..(Len(published') - Len(published))
                                    |-> "publish"]]
    /\ hpc' = IF last_call'.ret = "raised" THEN "crashed" ELSE "handled"
    /\ LookupOver
    /\ UNCHANGED <<converter, device_name, default_volume, metadata, inbox>>

CommandNotificationsByResult(cmd, stopped) ==
    IF cmd # "stop" THEN <<>>
    ELSE IF stopped = "True" THEN <<Status("stopped", "")>>
    ELSE <<Status("error", "Stop failed")>>

\* What _handle_command publishes for cmd when stop() returned stopped: the
\* return value of stop() is not looked at.
CommandNotifications(cmd, stopped) ==
    IF cmd = "stop" THEN <<Status("stopped", "")>> ELSE <<>>

HandleCommandAlwaysStops(cmd, stop_ok) ==
    /\ hpc = "wait"
    /\ inbox # <<>>
    /\ Head(inbox) = CommandMessage(cmd)
    /\ inbox' = Tail(inbox)
    /\ event' = [Event("command", 0, 0, cmd, NoLatLon, "none", "none")
                 EXCEPT !.steps = <<"stop", "publish">>]
    /\ last_call' = StopRun(device, stop_ok)
    /\ device' = last_call'.after
    /\ published' = <<Status("stopped", "")>>
    /\ hpc' = "handled"
    /\ UNCHANGED <<radio, converter, device_name, default_volume, metadata>>

\* _handle_command(cmd)
HandleCommand(cmd, stop_ok) ==
    /\ hpc = "wait"
    /\ inbox # <<>>
    /\ Head(inbox) = CommandMessage(cmd)
    /\ inbox' = Tail(inbox)
    /\ IF cmd = "stop"
       THEN /\ last_call' = StopRun(device, stop_ok)
            /\ device' = last_call'.after
       ELSE UNCHANGED <<last_call, device>>
    /\ published' = CommandNotifications(cmd, last_call'.ret)
    /\ event' = [Event("command", 0, 0, cmd, NoLatLon, "none", "none")
                 EXCEPT !.steps =
                    IF cmd = "stop"
                    THEN <<"stop">> \o [i \in 1..Len(published') |-> "publish"]
                    ELSE <<>>]
    /\ hpc' = "handled"
    /\ UNCHANGED <<radio, converter, device_name, default_volume, metadata>>

\* A message of a subscribed topic arrives while the loop is connected.
Arrive(msg) ==
    /\ hpc \in {"wait", "lookup", "handled"}
    /\ Len(inbox) < MaxInbox
    /\ inbox' = Append(inbox, msg)
    /\ UNCHANGED <<radio, converter, streamer, hpc, event, published>>

\* A message arrives while the loop waits with nothing else to read.
ArriveWhileWaiting(msg) ==
    /\ hpc = "wait"
    /\ inbox = <<>>
    /\ Arrive(msg)

\* _on_message with a payload it cannot use: logged, no handler is called.
IgnoreMessage ==
    /\ hpc = "wait"
    /\ inbox # <<>>
    /\ Ignored(Head(inbox))
    /\ inbox' = Tail(inbox)
    /\ UNCHANGED <<radio, converter, streamer, hpc, event, published>>

\* The messages that can arrive: touches on and around the panel, commands,
\* and payloads _on_message cannot use.
Messages ==
    {TouchMessage(x, calibration.touch_min_y) :
        x \in TouchCoords(calibration.touch_min_x, calibration.touch_max_x)}
    \cup {CommandMessage(cmd) : cmd \in Commands}
    \cup BadMessages

\* start() has discovered, or the handler has returned: the MQTT loop waits
\* for the next event.
Listen ==
    /\ hpc \in {"started", "handled"}
    /\ hpc' = "wait"
    /\ event' = NoEvent
    /\ published' = <<>>
    /\ last_call' = NoCall
    /\ UNCHANGED <<radio, converter, device_name, default_volume, metadata,
                   device, inbox>>

NextServer ==
    \/ \E search \in ServerSearches : Start(search)
    \/ \E msg \in Messages : ArriveWhileWaiting(msg)
    \/ IgnoreMessage
    \/ \E x \in TouchCoords(calibration.touch_min_x, calibration.touch_max_x),
          y \in {calibration.touch_min_y} :
          HandleTouch(x, y)
    \/ TouchLookupCached
    \/ \E list \in Catalogs : TouchLookupRefreshed(list)
    \/ TouchLookupRefreshFailed
    \/ \E n \in 0..MaxItems : FetchChannels(n)
    \/ FetchChannelsFailed
    \/ RaiseNoChannels
    \/ PickStation
    \/ TouchLookupFailed
    \/ \E env \in PlayEnvs(device, ServerSearches) : TouchPlay(env)
    \/ \E cmd \in Commands, stop_ok \in BOOLEAN : HandleCommand(cmd, stop_ok)
    \/ Listen

SpecServer == InitServer /\ [][NextServer]_vars

\* ------------------------------------- the MQTT loop with waiting messages
\* One touch, one command and one unusable payload, arriving at any time.
LoopMessages ==
    {TouchMessage(calibration.touch_min_x, calibration.touch_min_y),
     CommandMessage("stop"),
     Message("touch", FALSE, FALSE, 0, 0, "")}

InitLoop == InitServer /\ default_volume = NoVolume

NextLoop ==
    \/ \E search \in ServerSearches : Start(search)
    \/ \E msg \in LoopMessages : Arrive(msg)
    \/ IgnoreMessage
    \/ HandleTouch(calibration.touch_min_x, calibration.touch_min_y)
    \/ TouchLookupCached
    \/ \E list \in Catalogs : TouchLookupRefreshed(list)
    \/ TouchLookupRefreshFailed
    \/ \E n \in 0..MaxItems : FetchChannels(n)
    \/ FetchChannelsFailed
    \/ RaiseNoChannels
    \/ PickStation
    \/ TouchLookupFailed
    \/ \E env \in PlayEnvs(device, ServerSearches) : TouchPlay(env)
    \/ \E stop_ok \in BOOLEAN : HandleCommand("stop", stop_ok)
    \/ Listen

SpecLoop == InitLoop /\ [][NextLoop]_vars

\* ------------------------------------------ the metadata of play on its own
\* Lines 117-120 of play(stream_url, title).
BuildMetadata(title, stream_url) ==
    /\ metadata' = [built |-> TRUE, title |-> title, url |-> stream_url,
                    payload |-> Didl(title, stream_url)]
    /\ UNCHANGED <<radio, converter, device_name, default_volume, device,
                   last_call, server>>

NextMetadata ==
    \E title \in Texts, stream_url \in Texts : BuildMetadata(title, stream_url)

InitMetadata ==
    /\ InitUpnp
    /\ device_name = NoName
    /\ default_volume = NoVolume

SpecMetadata == InitMetadata /\ [][NextMetadata]_vars

\* =============================================================== claims
HasRaised(error) == result.status = "raised" /\ result.error = error

\* A step that is the call of find_nearest_stations.
LookupStarts == pc = "idle" /\ pc' # "idle"

\* The number of GET /places calls in a log of network calls.
PlacesCalls(log) ==
    Cardinality({i \in 1..Len(log) : log[i][1] = "GET places"})

\* C1: when the places refresh fails while a previously fetched snapshot is
\* held, the lookup is served from that snapshot; the fetch error reaches
\* the caller only when no snapshot is held at all.
C1_ErrorOnlyWithoutSnapshot ==
    (pc = "done" /\ HasRaised("HTTPError")) => places = <<>>

\* C2 as stated: a lookup made less than ttl after the last successful
\* places fetch issues no GET /places, and one made once ttl has elapsed
\* issues exactly one.
C2_NoCallWithinTtl ==
    [][LookupStarts =>
         IF last_fetch.done /\ now - places_fetched_at < CacheTtl
         THEN PlacesCalls(calls') = 0
         ELSE PlacesCalls(calls') = 1]_vars

\* C2 amended: a lookup made less than ttl after the last successful places
\* fetch issues no GET /places provided the held list is not empty; a lookup
\* made once ttl has elapsed, or with an empty held list, issues exactly one.
C2_Freshness ==
    [][LookupStarts =>
         IF places # <<>> /\ now - places_fetched_at < CacheTtl
         THEN PlacesCalls(calls') = 0
         ELSE PlacesCalls(calls') = 1]_vars

\* A lookup served from the snapshot some time after it was fetched.
C2_CacheHit ==
    /\ pc = "fetch"
    /\ calls = <<>>
    /\ last_fetch.done
    /\ now > places_fetched_at

\* C3: the held place list is the initial empty list or exactly the list of
\* the most recent successful fetch, and a failed refresh changes neither
\* the place list nor fetchedAt.
C3_SnapshotWhole ==
    /\ [](places = IF last_fetch.done THEN last_fetch.list ELSE <<>>)
    /\ [][(pc = "idle" /\ result'.status = "raised"
               /\ result'.error = "HTTPError")
            => UNCHANGED <<places, places_fetched_at>>]_vars

\* A refresh failed and the snapshot fetched before it is still held.
C3_FailedRefreshKeptSnapshot ==
    /\ pc = "done"
    /\ HasRaised("HTTPError")
    /\ places # <<>>
    /\ places = last_fetch.list

\* C4: the aggregate channel list of one lookup never holds more than
\* n_stations channels, whatever the listings the directory returns.
C4_AggregateWithinBudget == Len(channels) <= n_stations

\* The channels taken from the first k selected places.
RECURSIVE TakenUpTo(_)
TakenUpTo(k) == IF k = 0 THEN 0 ELSE TakenUpTo(k - 1) + fetched[k].taken

AllFetched ==
    /\ pc \in {"pick", "done"}
    /\ selected_places # <<>>
    /\ Len(fetched) = Len(selected_places)

\* C5: the number of channels taken from the last selected place never
\* exceeds n_stations minus the number of channels aggregated from the
\* nearer selected places.
C5_LastWithinRemaining ==
    AllFetched =>
        LET last == Len(selected_places) IN
        fetched[last].taken <= n_stations - TakenUpTo(last - 1)

\* The catalog position of the nearest place, the earliest one among equals.
NearestIndex(ps, point) ==
    CHOOSE m \in 1..Len(ps) :
        /\ \A j \in 1..Len(ps) : Dist(ps[m], point) <= Dist(ps[j], point)
        /\ \A j \in 1..(m - 1) : Dist(ps[j], point) > Dist(ps[m], point)

\* C6: with a non-empty catalog the selected places start with the nearest
\* place, also when n_stations is below its size; the lookup raises the
\* no-places error only when the held list is empty.
C6_NearestAlwaysSelected ==
    /\ (pc \in {"fetch", "pick", "done"} /\ ~HasRaised("HTTPError")
           /\ places # <<>>)
         => /\ selected_places # <<>>
            /\ selected_places[1] = places[NearestIndex(places, target)]
    /\ (pc = "done" /\ HasRaised("NoPlaces")) => places = <<>>

\* The nearest place alone is larger than the budget and is selected.
C6_BudgetBelowNearestSize ==
    /\ pc = "fetch"
    /\ n_stations < selected_places[1].size
    /\ Len(places) > 1

\* C7: in modes nearest and popular the station returned is the first
\* channel of the closest place's listing.
C7_FirstOfClosest ==
    (pc = "done" /\ result.status = "ok"
       /\ selection_mode \in {"nearest", "popular"}
       /\ fetched[1].ok /\ fetched[1].n >= 1)
    => result.station_id = StationId(selected_places[1].id, 1)

\* C8: location and country of a returned station are those of the nearest
\* selected place, whichever place the station came from.
C8_LocationOfNearest ==
    (pc = "done" /\ result.status = "ok")
    => /\ result.location = selected_places[1].title
       /\ result.country = selected_places[1].country

\* A station of a farther place was returned after the nearest place's
\* fetch failed.
C8_StationOfFartherPlace ==
    /\ pc = "done"
    /\ result.status = "ok"
    /\ ~fetched[1].ok
    /\ PlaceOfStation(result.station_id) # selected_places[1].id

Min(a, b) == IF a < b THEN a ELSE b

\* C9: a failed channel fetch does not end the loop: every selected place is
\* fetched, each place whose fetch succeeded contributes its channels (the
\* last one up to the remaining budget), and the lookup raises the
\* no-channels error exactly when every fetch failed or returned nothing.
C9_PartialFailureTolerated ==
    (pc \in {"pick", "done"} /\ selected_places # <<>>) =>
        LET last == Len(selected_places)
            remaining == n_stations - TakenUpTo(last - 1)
            nothing == \A i \in 1..last : ~fetched[i].ok \/ fetched[i].n = 0
        IN /\ Len(fetched) = last
           /\ \A i \in 1..(last - 1) :
                 fetched[i].ok =>
                    \A k \in 1..fetched[i].n :
                       \E j \in 1..Len(channels) :
                          channels[j] = Channel(selected_places[i].id, k)
           /\ (fetched[last].ok /\ remaining >= 0)
                 => fetched[last].taken = Min(fetched[last].n, remaining)
           /\ Len(channels) = TakenUpTo(last)
           /\ (channels = <<>>) <=> nothing
           /\ pc = "done" =>
                 /\ HasRaised("NoChannels") <=> nothing
                 /\ (result.status = "ok") <=> ~nothing

\* A station was returned although one of the channel fetches failed.
C9_StationDespiteFailure ==
    /\ pc = "done"
    /\ result.status = "ok"
    /\ \E i \in 1..Len(fetched) : ~fetched[i].ok

\* C10: get_stream_url always returns a URL: the Location header's value on
\* a 301/302/307/308 response, the probed URL on any other response, the
\* canonical URL on a transport or TLS error.
C10_ResolveNeverFails ==
    probe.called =>
        LET o == probe.outcome
            url == CanonicalUrl(probe.station_id)
        IN /\ probe.returned \in {url} \cup LocationUrls
           /\ ~o.ok => probe.returned = url
           /\ (o.ok /\ o.status \in {301, 302, 307, 308})
                 => \A h \in o.headers :
                       h[1] = "Location" => probe.returned = h[2]
           /\ (o.ok /\ o.status \notin {301, 302, 307, 308})
                 => probe.returned = o.url

\* A redirect was resolved to the value of its Location header.
C10_RedirectResolved ==
    /\ probe.called
    /\ probe.outcome.ok
    /\ probe.outcome.status = 307
    /\ probe.returned \in LocationUrls

\* C11: no error is fatal to the event loop: whatever the directory, the
\* stream probe, the discovery or a control action comes to, the handler of a
\* touch or command event ends without an exception leaving it.
C11_NoErrorEscapesHandler == hpc # "crashed"

\* The positions of the actions named name in the call's log.
ActionsNamed(name) ==
    {i \in 1..Len(last_call.actions) : last_call.actions[i].name = name}

\* C12: play() with no device held and a discovery that finds no qualifying
\* renderer returns false and issues no Stop, SetVolume, SetAVTransportURI
\* or Play.
C12_NoDeviceNoAction ==
    (/\ last_call.op = "play"
     /\ last_call.before = 0
     /\ last_call.searched /\ last_call.search_ok
     /\ \A i \in 1..Len(last_call.responses) :
           \/ last_call.responses[i] = 0
           \/ ~Qualifies(last_call.responses[i], device_name))
    => /\ last_call.ret = "False"
       /\ last_call.actions = <<>>
       /\ device = 0

\* play searched, got responses, selected none of them and gave up.
C12_PlayFoundNothing ==
    /\ last_call.op = "play"
    /\ last_call.search_ok
    /\ last_call.responses # <<>>
    /\ last_call.ret = "False"
    /\ device = 0

\* C13: with a device selected, play returns true exactly when
\* SetAVTransportURI and then Play both succeed, in that order; when
\* SetAVTransportURI fails, Play is not issued and play returns false.
C13_TrueIffUriThenPlay ==
    (last_call.op = "play" /\ last_call.after # 0) =>
        LET a == last_call.actions
            uris == ActionsNamed("SetAVTransportURI")
            plays == ActionsNamed("Play")
        IN /\ last_call.ret \in {"True", "False"}
           /\ Cardinality(uris) = 1
           /\ \A i \in uris :
                 IF a[i].ok
                 THEN /\ plays = {i + 1}
                      /\ last_call.ret = "True" <=> a[i + 1].ok
                 ELSE /\ plays = {}
                      /\ last_call.ret = "False"

\* SetAVTransportURI failed on the held device.
C13_UriFailed ==
    /\ last_call.op = "play"
    /\ last_call.before # 0
    /\ last_call.ret = "False"
    /\ \E i \in ActionsNamed("SetAVTransportURI") : ~last_call.actions[i].ok

\* C14: in play a failure of the preliminary Stop or of SetVolume is
\* swallowed: SetAVTransportURI and Play are still issued afterwards and the
\* result depends on these two alone; SetVolume is attempted only when a
\* default volume is configured.
C14_BestEffortSwallowed ==
    (last_call.op = "play" /\ last_call.after # 0) =>
        LET a == last_call.actions
            stops == ActionsNamed("Stop")
            volumes == ActionsNamed("SetVolume")
            transport == ActionsNamed("SetAVTransportURI")
                         \cup ActionsNamed("Play")
        IN /\ stops = {1}
           /\ volumes # {} => default_volume.set /\ volumes = {2}
           /\ \E i \in ActionsNamed("SetAVTransportURI") :
                 \A j \in stops \cup volumes : j < i
           /\ last_call.ret = "True"
                 <=> /\ ActionsNamed("Play") # {}
                     /\ \A i \in transport : a[i].ok

\* Stop and SetVolume both failed and play still succeeded.
C14_PlayedDespiteFailures ==
    /\ last_call.op = "play"
    /\ last_call.ret = "True"
    /\ \E i \in ActionsNamed("Stop") : ~last_call.actions[i].ok
    /\ \E i \in ActionsNamed("SetVolume") : ~last_call.actions[i].ok

\* C15: stop() returns true without issuing any action when no device is
\* held; otherwise it issues exactly one Stop action and returns false only
\* when that action fails.
C15_StopOnce ==
    last_call.op = "stop" =>
        IF last_call.before = 0
        THEN last_call.ret = "True" /\ last_call.actions = <<>>
        ELSE /\ Len(last_call.actions) = 1
             /\ last_call.actions[1].name = "Stop"
             /\ last_call.ret \in {"True", "False"}
             /\ last_call.ret = "False" => ~last_call.actions[1].ok

\* The Stop action failed on the held device.
C15_StopFailed ==
    /\ last_call.op = "stop"
    /\ last_call.before # 0
    /\ last_call.ret = "False"

\* sub occurs in str, letters compared without regard to case.
OccursIgnoringCase(sub, str) ==
    \E i \in 0..(Len(str) - Len(sub)) :
        \A k \in 1..Len(sub) : LowerChar(str[i + k]) = LowerChar(sub[k])

\* C16: discover selects the first responder, in arrival order, that can be
\* described, has the AVTransport service and, with a device name
\* configured, whose friendly name contains it case-insensitively; the
\* selected device becomes the held one and its friendly name is returned;
\* None is returned when no responder qualifies.
C16_FirstQualifyingSelected ==
    (last_call.op = "discover" /\ last_call.search_ok) =>
        LET r == last_call.responses
            qualifying ==
                {i \in 1..Len(r) :
                    /\ r[i] # 0
                    /\ Device(r[i]).described
                    /\ AVTransport \in Device(r[i]).services
                    /\ \/ ~device_name.set
                       \/ OccursIgnoringCase(device_name.value,
                                             Device(r[i]).friendly_name)}
        IN IF qualifying = {}
           THEN last_call.ret = "None"
           ELSE LET first == CHOOSE i \in qualifying :
                                \A j \in qualifying : i <= j
                IN /\ last_call.ret = "name"
                   /\ last_call.after = r[first]
                   /\ device = r[first]
                   /\ last_call.name = Device(r[first]).friendly_name

\* With a device name configured in another case than the renderer's name,
\* the first responder was passed over and a later one selected.
C16_LaterResponderSelected ==
    /\ last_call.op = "discover"
    /\ last_call.ret = "name"
    /\ device_name.set
    /\ ~Contains(device_name.value, last_call.name)
    /\ last_call.responses[1] \notin {0, device}

\* C17: for every touch (x, y), inside or outside the touch bounds,
\* pixel_to_latlon returns a latitude within [map_south, map_north] and a
\* longitude within [map_west, map_east]; within [-90, 90] and [-180, 180]
\* for the default bounds.
C17_Clamped ==
    projected.called =>
        LET lat == projected.latlon.lat
            lon == projected.latlon.lon
        IN /\ FracLe(FracInt(calibration.map_south), lat)
           /\ FracLe(lat, FracInt(calibration.map_north))
           /\ FracLe(FracInt(calibration.map_west), lon)
           /\ FracLe(lon, FracInt(calibration.map_east))
           /\ calibration = DefaultCalibration =>
                 /\ FracLe(FracInt(-90), lat) /\ FracLe(lat, FracInt(90))
                 /\ FracLe(FracInt(-180), lon) /\ FracLe(lon, FracInt(180))

\* A touch outside the touch bounds on both axes.
C17_TouchOutside ==
    /\ projected.called
    /\ projected.x > calibration.touch_min_x
    /\ projected.x > calibration.touch_max_x
    /\ projected.y < calibration.touch_min_y
    /\ projected.y < calibration.touch_max_y

\* C18: pixel_to_latlon(minX, minY) is the map's (north, west) corner,
\* pixel_to_latlon(maxX, maxY) its (south, east) corner, and the centre of a
\* 1024x600 panel on the whole world is (0, 0).
C18_Corners ==
    projected.called =>
        /\ (/\ projected.x = calibration.touch_min_x
            /\ projected.y = calibration.touch_min_y)
           => projected.latlon = [lat |-> FracInt(calibration.map_north),
                                  lon |-> FracInt(calibration.map_west)]
        /\ (/\ projected.x = calibration.touch_max_x
            /\ projected.y = calibration.touch_max_y)
           => projected.latlon = [lat |-> FracInt(calibration.map_south),
                                  lon |-> FracInt(calibration.map_east)]
        /\ (/\ calibration = DefaultCalibration
            /\ projected.x = 512 /\ projected.y = 300)
           => projected.latlon = [lat |-> FracInt(0), lon |-> FracInt(0)]

\* A touch on the (maxX, maxY) corner of a panel whose map is not centred
\* on (0, 0).
C18_TouchOnMaxCorner ==
    /\ projected.called
    /\ projected.x = calibration.touch_max_x
    /\ projected.y = calibration.touch_max_y
    /\ calibration.map_south # -calibration.map_north
    /\ calibration.map_west # -calibration.map_east

\* The sizes of the first k places of a list, added up.
RECURSIVE SizesUpTo(_, _)
SizesUpTo(ps, k) == IF k = 0 THEN 0 ELSE SizesUpTo(ps, k - 1) + ps[k].size

\* The length of the shortest prefix of ps whose sizes reach budget, the
\* length of ps when none does.
ShortestPrefix(ps, budget) ==
    LET reaching == {k \in 0..Len(ps) : SizesUpTo(ps, k) >= budget}
    IN IF reaching = {} THEN Len(ps)
       ELSE CHOOSE k \in reaching : \A j \in reaching : k <= j

\* Three places of sizes 5, 10 and 8, nearest first.
ScenarioPlaces ==
    [i \in 1..3 |-> [id |-> i, title |-> <<"place", i>>,
                     country |-> <<"country", i>>, geo |-> i,
                     size |-> <<5, 10, 8>>[i]]]

\* C19: the selected places are the shortest prefix of the distance-sorted
\* place list whose sizes add up to the budget or more, the whole list when
\* they never do; sizes 5, 10, 8 with budget 12 select the first two places.
C19_ShortestPrefixSelected ==
    /\ (pc \in {"fetch", "pick", "done"} /\ ~HasRaised("HTTPError")) =>
          LET sorted == SortByDist(places, target)
          IN selected_places =
                SubSeq(sorted, 1, ShortestPrefix(sorted, n_stations))
    /\ SelectPlaces(ScenarioPlaces, 0, 12) = SubSeq(ScenarioPlaces, 1, 2)

\* The nearest place alone does not reach the budget, the first two do.
C19_SecondPlaceNeeded ==
    /\ pc = "fetch"
    /\ Len(selected_places) = 2
    /\ selected_places[1].size < n_stations

\* The terminal statuses among the notifications published for the event.
TerminalStatuses ==
    {i \in 1..Len(published) :
        /\ published[i].topic = "status"
        /\ published[i].state \in {"error", "playing"}}

\* C20: for every touch event "loading" is published first, then exactly one
\* terminal status: "error" when the lookup fails or play returns false,
\* "playing" when play returns true; now-playing is published only when play
\* returned true, and before "playing".
C20_LoadingThenOneTerminal ==
    (hpc \in {"handled", "crashed"} /\ event.kind = "touch") =>
        LET last == Len(published)
            nowplaying == {i \in 1..last : published[i].topic = "nowplaying"}
        IN /\ published[1] = Status("loading", "")
           /\ TerminalStatuses = {last}
           /\ published[last].state =
                 IF event.play = "True" THEN "playing" ELSE "error"
           /\ nowplaying = IF event.play = "True" THEN {last - 1} ELSE {}

\* A step that gives the first waiting message to _on_message, and a step
\* that puts a message behind those waiting.
Taken == inbox # <<>> /\ inbox' = Tail(inbox)
Arrived ==
    /\ Len(inbox') = Len(inbox) + 1
    /\ SubSeq(inbox', 1, Len(inbox)) = inbox

\* The event a handler works on.
EventKey(e) == <<e.kind, e.x, e.y, e.cmd>>

C22_CallsInOrder ==
    LET refresh == IF calls # <<>> /\ calls[1][1] = "GET places"
                   THEN 1 ELSE 0
        done == Len(fetched)
    IN /\ \A i \in 1..Len(calls) : calls[i][1] = "GET places" => i = 1
       /\ Len(calls) \in {refresh + done, refresh + done + 1}
       /\ \A i \in 1..done :
             calls[refresh + i] = <<"GET channels", selected_places[i].id>>
       /\ Len(calls) = refresh + done + 1 =>
             /\ calls[Len(calls)][1] = "HEAD listen"
             /\ done = Len(selected_places)
       /\ \A i \in 1..(Len(selected_places) - 1) :
             Dist(selected_places[i], target)
                <= Dist(selected_places[i + 1], target)

\* A lookup that refreshed the places, fetched two places and probed.
C22_RefreshTwoFetchesProbe ==
    /\ pc = "done"
    /\ Len(calls) = 4
    /\ calls[1][1] = "GET places"
    /\ calls[2][2] # calls[3][2]
    /\ calls[4][1] = "HEAD listen"

\* The position of place p in the catalog ps.
PositionIn(ps, p) == CHOOSE i \in 1..Len(ps) : ps[i] = p

\* Place p comes before place q in the ranking of ps around point.
RankedBefore(ps, point, p, q) ==
    \/ Dist(p, point) < Dist(q, point)
    \/ /\ Dist(p, point) = Dist(q, point)
       /\ PositionIn(ps, p) < PositionIn(ps, q)

\* C23: places are ranked ascending by distance to the point and places at
\* equal distance keep their catalog order: the selected places are places
\* of the catalog, each ranked before the next and before every place that
\* was not selected.
C23_StableAscendingRanking ==
    (pc \in {"fetch", "pick", "done"} /\ ~HasRaised("HTTPError")) =>
        LET chosen == {selected_places[i] : i \in 1..Len(selected_places)}
            catalog == {places[i] : i \in 1..Len(places)}
        IN /\ chosen \subseteq catalog
           /\ Cardinality(chosen) = Len(selected_places)
           /\ \A i \in 1..(Len(selected_places) - 1) :
                 RankedBefore(places, target, selected_places[i],
                              selected_places[i + 1])
           /\ \A p \in chosen, q \in catalog \ chosen :
                 RankedBefore(places, target, p, q)
           /\ selected_places
                = SubSeq(SortByDist(places, target), 1, Len(selected_places))

\* Two places at the same distance, the one later in the catalog having the
\* smaller id, and only the earlier one selected.
C23_TieKeepsCatalogOrder ==
    /\ pc = "fetch"
    /\ Len(places) = 2
    /\ Dist(places[1], target) = Dist(places[2], target)
    /\ places[1].id > places[2].id
    /\ selected_places = <<places[1]>>

\* Text t occurs in text at position i.
StartsAt(text, i, t) ==
    /\ i + Len(t) - 1 <= Len(text)
    /\ SubSeq(text, i, i + Len(t) - 1) = t

\* No "<" in the text, and every "&" of it opens "&amp;" or "&lt;".
WellEscaped(text) ==
    \A i \in 1..Len(text) :
        /\ text[i] # "<"
        /\ text[i] = "&" => StartsAt(text, i, Amp) \/ StartsAt(text, i, Lt)

\* Every "&" of the text as "&amp;", every "<" as "&lt;", the rest as it is.
RECURSIVE EscapedOnce(_)
EscapedOnce(text) ==
    IF text = <<>> THEN <<>>
    ELSE (IF Head(text) = "&" THEN Amp
          ELSE IF Head(text) = "<" THEN Lt
          ELSE <<Head(text)>>) \o EscapedOnce(Tail(text))

\* C24: the payload embeds the title and the URL with every "&" and every
\* "<" escaped, each once: neither embedded text has a raw "<" or a raw "&",
\* and an escaped "<" is not escaped again.
C24_TitleAndUrlEscaped ==
    metadata.built =>
        /\ metadata.payload.title = EscapedOnce(metadata.title)
        /\ metadata.payload.url = EscapedOnce(metadata.url)
        /\ WellEscaped(metadata.payload.title)
        /\ WellEscaped(metadata.payload.url)

\* A step that is the call of _handle_command.
CommandStarts == hpc = "wait" /\ event'.kind = "command"

\* C25: a "stop" command calls stop() on the held device and then publishes
\* "stopped"; any other command makes no renderer call and publishes
\* nothing, and leaves the selected device and the place cache as they were.
C25_CommandDispatch ==
    [][CommandStarts =>
          IF event'.cmd = "stop"
          THEN /\ last_call'.op = "stop"
               /\ last_call'.before = device
               /\ event'.steps = <<"stop", "publish">>
               /\ published' = <<Status("stopped", "")>>
          ELSE /\ last_call' = NoCall
               /\ event'.steps = <<>>
               /\ published' = <<>>
               /\ UNCHANGED <<device, places, places_fetched_at>>]_vars

\* A "replay" command was handled while a device is held.
C25_ReplayHandled ==
    /\ hpc = "handled"
    /\ event.kind = "command"
    /\ event.cmd = "replay"
    /\ device # 0
    /\ places # <<>>

\* C26: discovery runs only in start() and in a play that finds no device
\* held; a selected device is never cleared or replaced, whatever play, stop
\* or a control action comes to, and a call on a held device addresses that
\* device without searching.
C26_DeviceKeptOnceSelected ==
    [][/\ device # 0 => device' = device
       /\ (last_call' # last_call /\ last_call'.searched) =>
             /\ device = 0
             /\ hpc = "start" \/ last_call'.op = "play"
       /\ (last_call' # last_call /\ last_call'.op # "none" /\ device # 0) =>
             /\ last_call'.before = device
             /\ last_call'.after = device
             /\ ~last_call'.searched]_vars

\* play failed on a held device, which is still held.
C26_FailedPlayKeepsDevice ==
    /\ hpc = "handled"
    /\ event.play = "False"
    /\ last_call.before # 0
    /\ ~last_call.searched
    /\ device = last_call.before

\* C27: the held device is absent or exposes AVTransport, so play and stop
\* never take their "no AVTransport service" branch: a call on a held device
\* that returns false has issued an action.
C27_HeldDeviceHasAVTransport ==
    /\ device = 0 \/ HasService(device, AVTransport)
    /\ (last_call.op \in {"play", "stop"} /\ last_call.before # 0) =>
          /\ HasService(last_call.before, AVTransport)
          /\ last_call.actions # <<>>

\* stop() returned false on a held device.
C27_StopFailedOnHeldDevice ==
    /\ last_call.op = "stop"
    /\ last_call.before # 0
    /\ last_call.ret = "False"

\* A step in which the lookup of a touch event is found to have failed.
LookupFails == hpc = "lookup" /\ event'.lookup = "raised"

\* C28: when the lookup of a touch event fails, the handler makes no
\* discovery and no renderer call for the event: the selected device is
\* unchanged, and "loading" and "error" are all that is published.
C28_FailedLookupLeavesRenderer ==
    [][LookupFails =>
          /\ last_call = NoCall
          /\ last_call' = NoCall
          /\ device' = device
          /\ event'.play = "none"
          /\ event'.steps = <<"publish", "lookup", "publish">>
          /\ published' = <<Status("loading", ""),
                            Status("error", "No stations found")>>]_vars

\* The lookup failed for want of channels while a device is held.
C28_NoChannelsWithDevice ==
    /\ hpc = "handled"
    /\ event.kind = "touch"
    /\ event.lookup = "raised"
    /\ device # 0
    /\ places # <<>>

\* C29: after a "stop" command "stopped" is published whatever stop()
\* returned, also when the Stop action failed and when no device is held;
\* "error" is never published for a command.
C29_StoppedWhateverStopReturned ==
    (hpc = "handled" /\ event.kind = "command") =>
        /\ \A i \in 1..Len(published) : published[i].state # "error"
        /\ event.cmd = "stop" =>
              /\ last_call.ret \in {"True", "False"}
              /\ published = <<Status("stopped", "")>>

\* The Stop action of a "stop" command failed.
C29_StopActionFailed ==
    /\ hpc = "handled"
    /\ event.cmd = "stop"
    /\ last_call.actions = <<Action("Stop", FALSE)>>
    /\ last_call.ret = "False"

====
